---------------------------- MODULE Spec2Model ----------------------------
(***************************************************************************)
(* Model of the authentication backend: AuthService, UsersService,         *)
(* AdminService and AuthController over the shared store (User and         *)
(* RefreshToken tables).  Time is counted in minutes.                      *)
(***************************************************************************)
EXTENDS Integers, FiniteSets, Sequences, TLC

VARIABLES
    users,      \* User table: set of User records
    tokens,     \* RefreshToken table: set of [token, userId, expiresAt]
    nextToken,  \* number of refresh token values drawn from randomBytes so far
    now,        \* the clock (Date.now()), in minutes
    ticks,      \* number of clock advances so far
    cookie,     \* per client: the refreshToken cookie the browser holds
    bearer,     \* per client: the access token the client holds
    last,       \* the last operation: its inputs, its return value, its response
    reqs        \* register requests in flight (interleaved at their awaits)

vars == <<users, tokens, nextToken, now, ticks, cookie, bearer, last, reqs>>

----------------------------------------------------------------------------
(* Bounds of the model *)

MaxTokens == 2
MaxTicks == 2

(* Program constants *)

AccessTokenMinutes == 15
RefreshTokenDays == 14
BcryptCost == 12
MinutesPerDay == 24 * 60

AdminEmail == "admin@example.com"
AdminPassword == "Admin@12345"

Emails == {"a@x.com", AdminEmail}
UserPassword == "longpassword"
Passwords == {UserPassword, AdminPassword}
Roles == {"CITIZEN", "NGO", "ADMIN"}
Clients == {"c1"}
Reqs == {"r1", "r2", "r3"}
TickSteps == {AccessTokenMinutes, RefreshTokenDays * MinutesPerDay}
UserIds == 1 .. Cardinality(Emails)
\* the user id the administrative requests name: that of the first user to
\* register (no User has it before)
TargetIds == {Cardinality(Emails)}

----------------------------------------------------------------------------
(* Values *)

NoHash == [alg |-> "", cost |-> 0, plain |-> ""]
NoUser == [id |-> 0, email |-> "", passwordHash |-> NoHash, role |-> "", isActive |-> FALSE]
NoRecord == [token |-> 0, userId |-> 0, expiresAt |-> 0]
NoAccess == [sub |-> 0, role |-> "", iat |-> 0, exp |-> 0]
NoCookie == [value |-> 0, maxAge |-> 0]

NoUserP(u) == u.id = 0
NoRecordP(r) == r.token = 0
NoAccessP(a) == a.sub = 0

\* bcrypt.hash(password, 12) and bcrypt.compare(password, hash)
Hash(password) == [alg |-> "bcrypt", cost |-> BcryptCost, plain |-> password]
Compare(password, hash) == hash.alg = "bcrypt" /\ hash.plain = password

\* HTTP responses and exceptions
Resp(status, message) ==
    [status |-> status, message |-> message, user |-> NoUser, accessToken |-> NoAccess,
     ok |-> FALSE, list |-> <<>>]
NoResp == Resp(0, "")
ForbiddenException(message) == Resp(403, message)
UnauthorizedException(message) == Resp(401, message)
NotFoundException(message) == Resp(404, message)
InternalServerError == Resp(500, "Internal server error")

\* return values of service methods
Ret(kind) == [kind |-> kind, user |-> NoUser, record |-> NoRecord, error |-> NoResp]
RetNull == Ret("null")
RetUser(u) == [Ret("user") EXCEPT !.user = u]
RetRecord(r) == [Ret("record") EXCEPT !.record = r]
RetThrow(e) == [Ret("throw") EXCEPT !.error = e]

Op(name) ==
    [op |-> name, client |-> "", email |-> "", password |-> "", role |-> "", route |-> "",
     token |-> 0, userId |-> 0, flag |-> FALSE, ret |-> Ret("none"), resp |-> NoResp]

----------------------------------------------------------------------------
(* The store: prisma.user and prisma.refreshToken *)

UserFindUniqueByEmail(us, email) ==
    IF \E u \in us : u.email = email
    THEN CHOOSE u \in us : u.email = email
    ELSE NoUser

UserFindUniqueById(us, id) ==
    IF \E u \in us : u.id = id
    THEN CHOOSE u \in us : u.id = id
    ELSE NoUser

\* prisma.user.create: the unique index on email rejects a second row
UserCreate(us, data) ==
    IF \E u \in us : u.email = data.email
    THEN [ok |-> FALSE, users |-> us, user |-> NoUser]
    ELSE LET u == [id |-> Cardinality(us) + 1, email |-> data.email,
                   passwordHash |-> data.passwordHash, role |-> data.role,
                   isActive |-> TRUE]
         IN [ok |-> TRUE, users |-> us \cup {u}, user |-> u]

----------------------------------------------------------------------------
(* UsersService *)

UsersService_findByEmail_NeverFound(us, email) == NoUser

UsersService_findByEmail(us, email) ==
    IF email = "" THEN NoUser ELSE UserFindUniqueByEmail(us, email)

UsersService_findById(us, id) == UserFindUniqueById(us, id)

UsersService_create_DefaultAdmin(us, data) ==
    UserCreate(us, [email |-> data.email, passwordHash |-> data.passwordHash,
                    role |-> IF data.role = "" THEN "ADMIN" ELSE data.role])

UsersService_create(us, data) ==
    UserCreate(us, [email |-> data.email, passwordHash |-> data.passwordHash,
                    role |-> IF data.role = "" THEN "CITIZEN" ELSE data.role])

UsersService_setRole(us, userId, role) ==
    {IF u.id = userId THEN [u EXCEPT !.role = role] ELSE u : u \in us}

UsersService_setActive_NoWhere(us, userId, isActive) ==
    {[u EXCEPT !.isActive = isActive] : u \in us}

UsersService_setActive(us, userId, isActive) ==
    {IF u.id = userId THEN [u EXCEPT !.isActive = isActive] ELSE u : u \in us}

\* findMany ordered by createdAt, newest first (ids count up in creation order)
UsersService_list(us) ==
    LET n == Cardinality(us) IN [i \in 1 .. n |-> UserFindUniqueById(us, n + 1 - i)]

----------------------------------------------------------------------------
(* AuthService *)

\* register, after its lookup found nothing: hash, create, return the user.
\* An error of the store is not caught: the request ends as a server error.
AuthService_register_create(us, email, password) ==
    LET c == UsersService_create(us, [email |-> email, passwordHash |-> Hash(password), role |-> ""])
    IN IF c.ok
       THEN [users |-> c.users, resp |-> [Resp(201, "") EXCEPT !.user = c.user]]
       ELSE [users |-> us, resp |-> InternalServerError]

AuthService_register(us, email, password) ==
    LET existing == UsersService_findByEmail(us, email) IN
    IF ~NoUserP(existing)
    THEN [users |-> us, resp |-> ForbiddenException("Email already registered")]
    ELSE AuthService_register_create(us, email, password)

AuthService_validateCredentials_NoActiveCheck(us, email, password) ==
    LET user == UserFindUniqueByEmail(us, email) IN
    IF NoUserP(user) THEN RetNull
    ELSE IF ~Compare(password, user.passwordHash) THEN RetNull
    ELSE RetUser(user)

AuthService_validateCredentials_UnknownThrows(us, email, password) ==
    LET user == UserFindUniqueByEmail(us, email) IN
    IF NoUserP(user) THEN RetThrow(UnauthorizedException("User not found"))
    ELSE IF ~user.isActive THEN RetThrow(ForbiddenException("User is deactivated"))
    ELSE IF ~Compare(password, user.passwordHash) THEN RetNull
    ELSE RetUser(user)

AuthService_validateCredentials_PasswordFirst(us, email, password) ==
    LET user == UserFindUniqueByEmail(us, email) IN
    IF NoUserP(user) THEN RetNull
    ELSE IF ~Compare(password, user.passwordHash) THEN RetNull
    ELSE IF ~user.isActive THEN RetThrow(ForbiddenException("User is deactivated"))
    ELSE RetUser(user)

AuthService_validateCredentials(us, email, password) ==
    LET user == UserFindUniqueByEmail(us, email) IN
    IF NoUserP(user) THEN RetNull
    ELSE IF ~user.isActive THEN RetThrow(ForbiddenException("User is deactivated"))
    ELSE IF ~Compare(password, user.passwordHash) THEN RetNull
    ELSE RetUser(user)

AuthService_issueAccessToken_LongLived(user, t) ==
    [sub |-> user.id, role |-> user.role, iat |-> t, exp |-> t + RefreshTokenDays * MinutesPerDay]

AuthService_issueAccessToken_DefaultRole(user, t) ==
    [sub |-> user.id, role |-> "CITIZEN", iat |-> t, exp |-> t + AccessTokenMinutes]

AuthService_issueAccessToken(user, t) ==
    [sub |-> user.id, role |-> user.role, iat |-> t, exp |-> t + AccessTokenMinutes]

AuthService_createRefreshToken_ShortLived(tk, n, userId, t) ==
    LET token == n + 1
        expiresAt == t + RefreshTokenDays * 60
    IN [tokens |-> tk \cup {[token |-> token, userId |-> userId, expiresAt |-> expiresAt]},
        token |-> token, expiresAt |-> expiresAt]

AuthService_createRefreshToken(tk, n, userId, t) ==
    LET token == n + 1
        expiresAt == t + RefreshTokenDays * MinutesPerDay
    IN [tokens |-> tk \cup {[token |-> token, userId |-> userId, expiresAt |-> expiresAt]},
        token |-> token, expiresAt |-> expiresAt]

AuthService_validateRefreshToken(tk, token, t) ==
    LET record == IF \E r \in tk : r.token = token
                  THEN CHOOSE r \in tk : r.token = token
                  ELSE NoRecord
    IN IF NoRecordP(record) THEN NoRecord
       ELSE IF record.expiresAt < t THEN NoRecord
       ELSE record

AuthService_revokeRefreshToken_KeepsRow(tk, token) == tk

AuthService_revokeRefreshToken_AllIfAbsent(tk, token) ==
    IF \E r \in tk : r.token = token THEN {r \in tk : r.token # token} ELSE {}

AuthService_revokeAllForUser_Everyone(tk, userId) ==
    IF \E r \in tk : r.userId = userId THEN {} ELSE tk

AuthService_revokeRefreshToken_ByOwner(tk, token) ==
    {r \in tk : \A q \in tk : q.token = token => r.userId # q.userId}

AuthService_revokeRefreshToken(tk, token) == {r \in tk : r.token # token}

AuthService_revokeAllForUser(tk, userId) == {r \in tk : r.userId # userId}

----------------------------------------------------------------------------
(* The guards *)

\* the token guard: passes a request that carries a signed, unexpired access
\* token, and attaches its claims to the request
JwtAuthGuard(access, t) == ~NoAccessP(access) /\ t < access.exp

\* the role guard: a route that declares roles passes only a request whose
\* attached claims carry one of them (reqUser is NoAccess when no guard has
\* attached any)
RolesGuard(required, reqUser) == required = {} \/ reqUser.role \in required

\* The guards of the AdminController routes, in the order in which they run:
\* the globally registered RolesGuard first, with nothing attached to the
\* request yet, then the JwtAuthGuard of the controller.  NoResp when the
\* request passes both.
AdminController_guards(access, t) ==
    LET reqUser == NoAccess IN
    IF ~RolesGuard({"ADMIN"}, reqUser) THEN ForbiddenException("Forbidden resource")
    ELSE IF ~JwtAuthGuard(access, t) THEN UnauthorizedException("Unauthorized")
    ELSE NoResp

----------------------------------------------------------------------------
Init ==
    /\ users = {[id |-> 1, email |-> AdminEmail, passwordHash |-> Hash(AdminPassword),
                 role |-> "ADMIN", isActive |-> TRUE]}
    /\ tokens = {}
    /\ nextToken = 0
    /\ now = 0
    /\ ticks = 0
    /\ cookie = [c \in Clients |-> NoCookie]
    /\ bearer = [c \in Clients |-> NoAccess]
    /\ last = Op("init")
    /\ reqs = [r \in Reqs |-> [pc |-> "idle", email |-> "", password |-> "", resp |-> NoResp]]

----------------------------------------------------------------------------
(* AdminService *)

AdminService_assignNgo_Promotes(us, userId) ==
    LET user == UsersService_findById(us, userId) IN
    IF NoUserP(user)
    THEN [users |-> us, resp |-> NotFoundException("User not found")]
    ELSE LET us2 == UsersService_setRole(us, userId, "ADMIN")
         IN [users |-> us2, resp |-> [Resp(200, "") EXCEPT !.user = UserFindUniqueById(us2, userId)]]

\* without the lookup, the update of a missing row is an error of the store
AdminService_assignNgo_NoLookup(us, userId) ==
    LET us2 == UsersService_setRole(us, userId, "NGO")
        user == UserFindUniqueById(us2, userId)
    IN IF NoUserP(user)
       THEN [users |-> us2, resp |-> InternalServerError]
       ELSE [users |-> us2, resp |-> [Resp(200, "") EXCEPT !.user = user]]

AdminService_assignNgo(us, userId) ==
    LET user == UsersService_findById(us, userId) IN
    IF NoUserP(user)
    THEN [users |-> us, resp |-> NotFoundException("User not found")]
    ELSE LET us2 == UsersService_setRole(us, userId, "NGO")
         IN [users |-> us2, resp |-> [Resp(200, "") EXCEPT !.user = UserFindUniqueById(us2, userId)]]

AdminService_setActive(us, userId, isActive) ==
    LET user == UsersService_findById(us, userId) IN
    IF NoUserP(user)
    THEN [users |-> us, resp |-> NotFoundException("User not found")]
    ELSE LET us2 == UsersService_setActive(us, userId, isActive)
         IN [users |-> us2, resp |-> [Resp(200, "") EXCEPT !.user = UserFindUniqueById(us2, userId)]]

AdminService_listUsers(us) ==
    [users |-> us, resp |-> [Resp(200, "") EXCEPT !.list = UsersService_list(us)]]

----------------------------------------------------------------------------
(* AdminController: a request to one of its routes passes the guards and    *)
(* then runs the handler                                                    *)

AdminRoutes == {"assign-ngo", "activate", "users"}

AdminController_handler(us, route, body) ==
    CASE route = "assign-ngo" -> AdminService_assignNgo(us, body.userId)
      [] route = "activate" -> AdminService_setActive(us, body.userId, body.isActive)
      [] OTHER -> AdminService_listUsers(us)

AdminRequest(c, route, body) ==
    LET denied == AdminController_guards(bearer[c], now)
        out == IF denied # NoResp
               THEN [users |-> users, resp |-> denied]
               ELSE AdminController_handler(users, route, body)
    IN /\ users' = out.users
       /\ last' = [Op("admin") EXCEPT !.client = c, !.route = route, !.userId = body.userId,
                       !.flag = body.isActive, !.resp = out.resp]
       /\ UNCHANGED <<tokens, nextToken, now, ticks, cookie, bearer, reqs>>

----------------------------------------------------------------------------
(* AuthController: the handlers as functions of the store, and one action   *)
(* per request                                                              *)

\* POST /auth/register: only body.email and body.password reach the service
AuthController_register(us, body) == AuthService_register(us, body.email, body.password)

Register(c, body) ==
    LET out == AuthController_register(users, body) IN
    /\ users' = out.users
    /\ last' = [Op("register") EXCEPT !.client = c, !.email = body.email,
                    !.password = body.password, !.role = body.role, !.resp = out.resp]
    /\ UNCHANGED <<tokens, nextToken, now, ticks, cookie, bearer, reqs>>

\* POST /auth/login: the response, the RefreshToken table afterwards and the
\* cookie it sets (NoCookie when it sets none)
AuthController_login(us, tk, n, email, password, t) ==
    LET v == AuthService_validateCredentials(us, email, password) IN
    IF v.kind = "throw"
    THEN [ret |-> v, resp |-> v.error, tokens |-> tk, cookie |-> NoCookie]
    ELSE IF v.kind = "null"
    THEN [ret |-> v, resp |-> UnauthorizedException("Invalid credentials"),
          tokens |-> tk, cookie |-> NoCookie]
    ELSE LET accessToken == AuthService_issueAccessToken(v.user, t)
             created == AuthService_createRefreshToken(tk, n, v.user.id, t)
         IN [ret |-> v, resp |-> [Resp(200, "") EXCEPT !.accessToken = accessToken],
             tokens |-> created.tokens,
             cookie |-> [value |-> created.token, maxAge |-> created.expiresAt - t]]

Login(c, email, password) ==
    LET out == AuthController_login(users, tokens, nextToken, email, password, now) IN
    /\ out.resp.status = 200 => nextToken < MaxTokens
    /\ tokens' = out.tokens
    /\ nextToken' = IF out.resp.status = 200 THEN out.cookie.value ELSE nextToken
    /\ cookie' = IF out.resp.status = 200 THEN [cookie EXCEPT ![c] = out.cookie] ELSE cookie
    /\ bearer' = IF out.resp.status = 200 THEN [bearer EXCEPT ![c] = out.resp.accessToken] ELSE bearer
    /\ last' = [Op("login") EXCEPT !.client = c, !.email = email, !.password = password,
                    !.token = out.cookie.value, !.ret = out.ret, !.resp = out.resp]
    /\ UNCHANGED <<users, now, ticks, reqs>>

AuthController_refresh_NoActiveCheck(us, tk, token, t) ==
    IF token = 0 THEN [resp |-> UnauthorizedException("No refresh token"), tokens |-> tk]
    ELSE LET record == AuthService_validateRefreshToken(tk, token, t) IN
         IF NoRecordP(record)
         THEN [resp |-> UnauthorizedException("Invalid refresh token"), tokens |-> tk]
         ELSE LET user == UserFindUniqueById(us, record.userId) IN
              IF NoUserP(user)
              THEN [resp |-> UnauthorizedException("User not found"), tokens |-> tk]
              ELSE [resp |-> [Resp(200, "") EXCEPT
                                 !.accessToken = AuthService_issueAccessToken(user, t)],
                    tokens |-> tk]

AuthController_refresh_EndsInactive(us, tk, token, t) ==
    IF token = 0 THEN [resp |-> UnauthorizedException("No refresh token"), tokens |-> tk]
    ELSE LET record == AuthService_validateRefreshToken(tk, token, t) IN
         IF NoRecordP(record)
         THEN [resp |-> UnauthorizedException("Invalid refresh token"), tokens |-> tk]
         ELSE LET user == UserFindUniqueById(us, record.userId) IN
              IF NoUserP(user)
              THEN [resp |-> UnauthorizedException("User not found"), tokens |-> tk]
              ELSE IF ~user.isActive
              THEN [resp |-> UnauthorizedException("User deactivated"),
                    tokens |-> AuthService_revokeAllForUser(tk, user.id)]
              ELSE [resp |-> [Resp(200, "") EXCEPT
                                 !.accessToken = AuthService_issueAccessToken(user, t)],
                    tokens |-> tk]

AuthController_refresh_Rotates(us, tk, token, t) ==
    IF token = 0 THEN [resp |-> UnauthorizedException("No refresh token"), tokens |-> tk]
    ELSE LET record == AuthService_validateRefreshToken(tk, token, t) IN
         IF NoRecordP(record)
         THEN [resp |-> UnauthorizedException("Invalid refresh token"), tokens |-> tk]
         ELSE LET user == UserFindUniqueById(us, record.userId) IN
              IF NoUserP(user)
              THEN [resp |-> UnauthorizedException("User not found"), tokens |-> tk]
              ELSE IF ~user.isActive
              THEN [resp |-> UnauthorizedException("User deactivated"), tokens |-> tk]
              ELSE [resp |-> [Resp(200, "") EXCEPT
                                 !.accessToken = AuthService_issueAccessToken(user, t)],
                    tokens |-> AuthService_revokeRefreshToken(tk, token)]

\* POST /auth/refresh for a presented cookie value: the response and the
\* RefreshToken table afterwards
AuthController_refresh(us, tk, token, t) ==
    IF token = 0 THEN [resp |-> UnauthorizedException("No refresh token"), tokens |-> tk]
    ELSE LET record == AuthService_validateRefreshToken(tk, token, t) IN
         IF NoRecordP(record)
         THEN [resp |-> UnauthorizedException("Invalid refresh token"), tokens |-> tk]
         ELSE LET user == UserFindUniqueById(us, record.userId) IN
              IF NoUserP(user)
              THEN [resp |-> UnauthorizedException("User not found"), tokens |-> tk]
              ELSE IF ~user.isActive
              THEN [resp |-> UnauthorizedException("User deactivated"), tokens |-> tk]
              ELSE [resp |-> [Resp(200, "") EXCEPT
                                 !.accessToken = AuthService_issueAccessToken(user, t)],
                    tokens |-> tk]

Refresh(c) ==
    LET out == AuthController_refresh(users, tokens, cookie[c].value, now) IN
    /\ tokens' = out.tokens
    /\ last' = [Op("refresh") EXCEPT !.client = c, !.token = cookie[c].value, !.resp = out.resp]
    /\ bearer' = IF out.resp.status = 200
                 THEN [bearer EXCEPT ![c] = out.resp.accessToken]
                 ELSE bearer
    /\ UNCHANGED <<users, nextToken, now, ticks, cookie, reqs>>

AuthController_logout_RevokesOwner(tk, token) ==
    {r \in tk : \A q \in tk : q.token = token => r.userId # q.userId}

\* the handler body of POST /auth/logout: the RefreshToken table afterwards
AuthController_logout(tk, token) ==
    IF token # 0 THEN AuthService_revokeRefreshToken(tk, token) ELSE tk

\* POST /auth/logout, behind JwtAuthGuard
Logout(c) ==
    LET op == [Op("logout") EXCEPT !.client = c, !.token = cookie[c].value] IN
    IF JwtAuthGuard(bearer[c], now)
    THEN /\ tokens' = AuthController_logout(tokens, cookie[c].value)
         /\ cookie' = [cookie EXCEPT ![c] = NoCookie]
         /\ last' = [op EXCEPT !.resp = [Resp(200, "") EXCEPT !.ok = TRUE]]
         /\ UNCHANGED <<users, nextToken, now, ticks, bearer, reqs>>
    ELSE /\ last' = [op EXCEPT !.resp = UnauthorizedException("Unauthorized")]
         /\ UNCHANGED <<users, tokens, nextToken, now, ticks, cookie, bearer, reqs>>

----------------------------------------------------------------------------
(* Service methods called on their own *)

RevokeRefreshToken(token) ==
    /\ tokens' = AuthService_revokeRefreshToken(tokens, token)
    /\ last' = [Op("revokeRefreshToken") EXCEPT !.token = token, !.ret = Ret("void")]
    /\ UNCHANGED <<users, nextToken, now, ticks, cookie, bearer, reqs>>

RevokeAllForUser(userId) ==
    /\ tokens' = AuthService_revokeAllForUser(tokens, userId)
    /\ last' = [Op("revokeAllForUser") EXCEPT !.userId = userId, !.ret = Ret("void")]
    /\ UNCHANGED <<users, nextToken, now, ticks, cookie, bearer, reqs>>

AssignNgo(userId) ==
    LET out == AdminService_assignNgo(users, userId) IN
    /\ users' = out.users
    /\ last' = [Op("assignNgo") EXCEPT !.userId = userId, !.resp = out.resp]
    /\ UNCHANGED <<tokens, nextToken, now, ticks, cookie, bearer, reqs>>

SetActive(userId, isActive) ==
    LET out == AdminService_setActive(users, userId, isActive) IN
    /\ users' = out.users
    /\ last' = [Op("setActive") EXCEPT !.userId = userId, !.flag = isActive, !.resp = out.resp]
    /\ UNCHANGED <<tokens, nextToken, now, ticks, cookie, bearer, reqs>>

ListUsers ==
    LET out == AdminService_listUsers(users) IN
    /\ users' = out.users
    /\ last' = [Op("listUsers") EXCEPT !.resp = out.resp]
    /\ UNCHANGED <<tokens, nextToken, now, ticks, cookie, bearer, reqs>>

\* the clock advances
Tick(d) ==
    /\ ticks < MaxTicks
    /\ now' = now + d
    /\ ticks' = ticks + 1
    /\ last' = Op("tick")
    /\ UNCHANGED <<users, tokens, nextToken, cookie, bearer, reqs>>

----------------------------------------------------------------------------
(* register requests running concurrently: each await is a point where      *)
(* another request may run                                                  *)

\* request r arrives and runs up to the answer of findByEmail
RegisterLookup(r, email, password) ==
    /\ reqs[r].pc = "idle"
    /\ LET existing == UsersService_findByEmail(users, email) IN
       reqs' = [reqs EXCEPT ![r] =
                   IF ~NoUserP(existing)
                   THEN [pc |-> "done", email |-> email, password |-> password,
                         resp |-> ForbiddenException("Email already registered")]
                   ELSE [pc |-> "create", email |-> email, password |-> password,
                         resp |-> NoResp]]
    /\ UNCHANGED <<users, tokens, nextToken, now, ticks, cookie, bearer, last>>

\* request r resumes: hashes the password and creates the user
RegisterCreate(r) ==
    /\ reqs[r].pc = "create"
    /\ LET out == AuthService_register_create(users, reqs[r].email, reqs[r].password) IN
       /\ users' = out.users
       /\ reqs' = [reqs EXCEPT ![r].pc = "done", ![r].resp = out.resp]
    /\ UNCHANGED <<tokens, nextToken, now, ticks, cookie, bearer, last>>

NextRace ==
    \/ \E r \in Reqs, e \in Emails, p \in Passwords : RegisterLookup(r, e, p)
    \/ \E r \in Reqs : RegisterCreate(r)

SpecRace == Init /\ [][NextRace]_vars

----------------------------------------------------------------------------
Bodies == [email : Emails, password : {UserPassword}, role : {"", "ADMIN"}]
AdminBodies == [userId : TargetIds, isActive : {FALSE}]

Next ==
    \/ \E c \in Clients, body \in Bodies : Register(c, body)
    \/ \E c \in Clients, e \in Emails, p \in Passwords : Login(c, e, p)
    \/ \E c \in Clients : Refresh(c)
    \/ \E c \in Clients : Logout(c)
    \/ \E t \in 1 .. MaxTokens : RevokeRefreshToken(t)
    \/ \E u \in UserIds : RevokeAllForUser(u)
    \/ \E u \in TargetIds : AssignNgo(u)
    \/ \E u \in TargetIds, b \in BOOLEAN : SetActive(u, b)
    \/ ListUsers
    \/ \E d \in TickSteps : Tick(d)

Spec == Init /\ [][Next]_vars

\* the clients' requests to the routes of the AdminController
NextAdmin ==
    \/ \E c \in Clients, body \in Bodies : Register(c, body)
    \/ \E c \in Clients, e \in Emails, p \in Passwords : Login(c, e, p)
    \/ \E c \in Clients : Refresh(c)
    \/ \E c \in Clients, route \in AdminRoutes, body \in AdminBodies : AdminRequest(c, route, body)
    \/ \E d \in TickSteps : Tick(d)

SpecAdmin == Init /\ [][NextAdmin]_vars

----------------------------------------------------------------------------
(* Claims *)

DuplicateCredential == ForbiddenException("Email already registered")

RaceOf(e) == {r \in Reqs : reqs[r].email = e}

\* C1: when two or more concurrent register requests for one new email have
\* all finished, exactly one of them created the User and every other one
\* ended with DuplicateCredential, and with no other error.
C1_OneCreatedOthersDuplicate ==
    \A e \in Emails \ {AdminEmail} :
        (Cardinality(RaceOf(e)) >= 2 /\ \A r \in RaceOf(e) : reqs[r].pc = "done")
        => /\ Cardinality({r \in RaceOf(e) : reqs[r].resp.status = 201}) = 1
           /\ \A r \in RaceOf(e) :
                  reqs[r].resp.status = 201 \/ reqs[r].resp = DuplicateCredential

----------------------------------------------------------------------------
(* The store as the claims read it *)

UsersWithEmail(e) == {u \in users : u.email = e}
Stepped(name) == last'.op = name /\ vars' # vars

AccountDeactivated == ForbiddenException("User is deactivated")
InvalidCredentials == UnauthorizedException("Invalid credentials")

C2_Step ==
    Stepped("register") =>
        IF UsersWithEmail(last'.email) = {}
        THEN /\ last'.resp.status = 201
             /\ \E u \in users' \ users :
                    /\ users' = users \cup {u}
                    /\ u.email = last'.email
                    /\ last'.resp.user = u
        ELSE /\ last'.resp = DuplicateCredential
             /\ users' = users

\* C2: a register for an email that no User has creates exactly one User
\* with that email; a register for an email that a User has fails with
\* DuplicateCredential and leaves the User table as it was; no two Users
\* ever share an email.
C2_RegisterOncePerEmail ==
    /\ [](\A u1, u2 \in users : u1.email = u2.email => u1 = u2)
    /\ [][C2_Step]_vars

C2_Witness ==
    /\ last.op = "register"
    /\ last.email # AdminEmail
    /\ last.resp = DuplicateCredential

\* C3: the User a successful register created has role CITIZEN and is
\* active, whatever role field the request body carried.
C3_RegisterForcesCitizen ==
    (last.op = "register" /\ last.resp.status = 201) =>
        /\ last.resp.user.role = "CITIZEN"
        /\ last.resp.user.isActive
        /\ last.resp.user \in users
        /\ \A u \in UsersWithEmail(last.email) : u.role = "CITIZEN" /\ u.isActive

C3_Witness ==
    /\ last.op = "register"
    /\ last.resp.status = 201
    /\ last.role = "ADMIN"

C4_Cases(e, p, v) ==
    /\ UsersWithEmail(e) = {} => v = RetNull
    /\ \A u \in UsersWithEmail(e) :
        /\ (u.isActive /\ u.passwordHash # Hash(p)) => v = RetNull
        /\ (~u.isActive /\ u.passwordHash = Hash(p)) => v = RetThrow(AccountDeactivated)
        /\ (u.isActive /\ u.passwordHash = Hash(p)) => v = RetUser(u)

\* C4: validateCredentials returns null for an unknown email, null for an
\* active User with a wrong password, fails with AccountDeactivated for a
\* deactivated User with the right password, and returns the User when it
\* is active and the password is right; a login whose credentials it
\* refused changed neither table, and no login changes the User table.
C4_ValidateCredentials ==
    /\ [](\A e \in Emails \cup {""}, p \in Passwords \cup {""} :
              C4_Cases(e, p, AuthService_validateCredentials(users, e, p)))
    /\ [](last.op = "login" => C4_Cases(last.email, last.password, last.ret))
    /\ [][Stepped("login") =>
              /\ users' = users
              /\ last'.ret.kind # "user" => tokens' = tokens]_vars

C4_Witness ==
    /\ last.op = "login"
    /\ last.ret = RetThrow(AccountDeactivated)
    /\ \E u \in UsersWithEmail(last.email) : ~u.isActive /\ u.passwordHash = Hash(last.password)

C5_UnknownEmail(e) == UsersWithEmail(e) = {}
C5_WrongPassword(e, p) ==
    \E u \in UsersWithEmail(e) : u.isActive /\ u.passwordHash # Hash(p)

\* C5: a login with an email no User has and a login with an active User's
\* email and a wrong password get the same response, InvalidCredentials.
C5_LoginIndistinguishable ==
    /\ \A e \in Emails, p \in Passwords :
           (C5_UnknownEmail(e) \/ C5_WrongPassword(e, p)) =>
               AuthController_login(users, tokens, nextToken, e, p, now).resp = InvalidCredentials
    /\ (last.op = "login" /\ (C5_UnknownEmail(last.email) \/ C5_WrongPassword(last.email, last.password)))
           => last.resp = InvalidCredentials

C5_Witness ==
    /\ last.op = "login"
    /\ C5_WrongPassword(last.email, last.password)
    /\ last.resp = InvalidCredentials
    /\ \E e \in Emails : C5_UnknownEmail(e)

----------------------------------------------------------------------------
(* Refresh tokens as the claims read them *)

RecordsOf(t) == {r \in tokens : r.token = t}
Issued(t) == t \in 1 .. nextToken
Validates(t) == ~NoRecordP(AuthService_validateRefreshToken(tokens, t, now))
OwnerUsable(r) == \E u \in users : u.id = r.userId /\ u.isActive
RefreshTokenMinutes == RefreshTokenDays * MinutesPerDay

\* C6: validateRefreshToken(token) returns a record exactly when a record
\* with that token is stored and its expiresAt is strictly later than the
\* current time; at the instant the current time equals expiresAt it
\* returns null.
C6_ValidIffStrictlyFuture ==
    \A t \in 0 .. MaxTokens :
        Validates(t) <=> \E r \in RecordsOf(t) : r.expiresAt > now

\* C7: the token a login created validates at once; after
\* revokeRefreshToken, a logout that presented it, or revokeAllForUser of
\* its owner it no longer validates; a stored token whose expiry has passed
\* does not validate; an issued token that does not validate never
\* validates again; a refresh presenting such a token fails and carries no
\* access token.
C7_RevokedOrExpiredStaysInvalid ==
    /\ []((last.op = "login" /\ last.resp.status = 200) => Validates(last.token))
    /\ [](last.op = "revokeRefreshToken" => ~Validates(last.token))
    /\ []((last.op = "logout" /\ last.resp.ok) => ~Validates(last.token))
    /\ [](last.op = "revokeAllForUser" => \A r \in tokens : r.userId # last.userId)
    /\ [](\A r \in tokens : r.expiresAt < now => ~Validates(r.token))
    /\ []((last.op = "refresh" /\ ~Validates(last.token)) =>
              (last.resp.status = 401 /\ NoAccessP(last.resp.accessToken)))
    /\ [][\A t \in 1 .. MaxTokens : (Issued(t) /\ ~Validates(t)) => (~Validates(t))']_vars

C7_Witness ==
    /\ last.op = "refresh"
    /\ Issued(last.token)
    /\ RecordsOf(last.token) = {}
    /\ now > 0
    /\ last.resp.status = 401

\* C8: a refresh presenting a stored, unexpired token whose owner is
\* missing or deactivated fails with InvalidRefreshToken (401) and carries
\* no access token; the RefreshToken record is still there.
C8_RefreshRefusedForUnusableOwner ==
    (last.op = "refresh"
        /\ \E r \in RecordsOf(last.token) : r.expiresAt >= now /\ ~OwnerUsable(r))
    => /\ last.resp.status = 401
       /\ NoAccessP(last.resp.accessToken)

C8_Witness ==
    /\ last.op = "refresh"
    /\ \E r \in RecordsOf(last.token) :
           /\ r.expiresAt > now
           /\ \E u \in users : u.id = r.userId /\ ~u.isActive
    /\ last.resp.status = 401

\* C9: a refresh, successful or failed, leaves the RefreshToken table and
\* the client's cookie as they were, and a refresh presenting a token that
\* validates and whose owner is active succeeds every time.
C9_RefreshDoesNotRotate ==
    /\ [][Stepped("refresh") => (tokens' = tokens /\ cookie' = cookie)]_vars
    /\ []((last.op = "refresh" /\ Validates(last.token)
              /\ \A r \in RecordsOf(last.token) : OwnerUsable(r))
          => /\ last.resp.status = 200
             /\ \E r \in RecordsOf(last.token) : last.resp.accessToken.sub = r.userId)

C9_Witness ==
    /\ last.op = "refresh"
    /\ last.resp.status = 200
    /\ cookie[last.client].value = last.token
    /\ \E r \in RecordsOf(last.token) : r.expiresAt < now + RefreshTokenMinutes

\* C10 as claimed: every logout request ends with the ack and none fails.
C10_LogoutAlwaysAcks == last.op = "logout" => last.resp.ok

C10_Step ==
    Stepped("logout") =>
        LET c == last'.client
            t == cookie[c].value
        IN /\ last'.token = t
           /\ users' = users
           /\ IF ~NoAccessP(bearer[c]) /\ now < bearer[c].exp
              THEN /\ last'.resp.ok /\ last'.resp.status = 200
                   /\ tokens' = tokens \ RecordsOf(t)
                   /\ Cardinality(tokens \ tokens') <= 1
                   /\ cookie'[c] = NoCookie
              ELSE /\ last'.resp.status = 401
                   /\ tokens' = tokens
                   /\ cookie' = cookie

\* C10 as amended: a logout request that carries a valid, unexpired access
\* token ends with the ack, deletes the record of the presented refresh
\* token when there is one and nothing else, and clears the cookie; a
\* logout request without such an access token ends Unauthenticated (401)
\* and changes nothing.
C10_LogoutBehindGuard == [][C10_Step]_vars

C10_Witness ==
    /\ last.op = "logout"
    /\ last.resp.ok
    /\ Issued(last.token)
    /\ RecordsOf(last.token) = {}
    /\ tokens # {}

----------------------------------------------------------------------------
(* Access tokens, the admin routes and the administrative operations *)

\* C11: a successful refresh returns an access token that differs from the
\* access token the client got from its login (and from the one any earlier
\* refresh of that session returned), and that has the same subject.
C11_RefreshIssuesNewToken ==
    [][(Stepped("refresh") /\ last'.resp.status = 200) =>
          /\ last'.resp.accessToken # bearer[last'.client]
          /\ last'.resp.accessToken.sub = bearer[last'.client].sub]_vars

\* C12: on every route of the AdminController, a request without an access
\* token ends Unauthenticated (401), a request with a valid, unexpired
\* access token whose role is CITIZEN ends Forbidden (403), and the handler
\* runs only for a valid, unexpired access token whose role is ADMIN.
C12_AdminRoutesGated ==
    last.op = "admin" =>
        LET access == bearer[last.client]
            valid == ~NoAccessP(access) /\ now < access.exp
        IN /\ NoAccessP(access) => last.resp.status = 401
           /\ (valid /\ access.role = "CITIZEN") => last.resp.status = 403
           /\ last.resp.status \notin {401, 403} => (valid /\ access.role = "ADMIN")

Seq2Set(s) == {s[i] : i \in DOMAIN s}

\* C13: the User a response of register, assign-ngo or activate carries, and
\* every User of the list a response of listUsers carries, has no password
\* hash in it.
C13_NoPasswordHashInResponses ==
    last.op \in {"register", "assignNgo", "setActive", "listUsers"} =>
        /\ last.resp.user.passwordHash = NoHash
        /\ \A u \in Seq2Set(last.resp.list) : u.passwordHash = NoHash

Inactive(id) == \E u \in users : u.id = id /\ ~u.isActive

C14_IssueStep ==
    (last'.op \in {"login", "refresh"} /\ vars' # vars /\ last'.resp.status = 200) =>
        /\ ~Inactive(last'.resp.accessToken.sub)
        /\ last'.resp.accessToken.iat = now
        /\ last'.resp.accessToken.exp = now + AccessTokenMinutes

C14_GateStep ==
    (Stepped("logout") /\ Inactive(bearer[last'.client].sub)) =>
        (last'.resp.ok <=> now < bearer[last'.client].exp)

\* C14: the gate accepts an access token of a deactivated user exactly
\* until the token's own expiry; login and refresh issue no access token
\* for a user who is inactive, and every access token expires one
\* access-token TTL after its issue, so every access token a deactivated
\* user holds was issued no later than the deactivation and is refused from
\* one TTL after it on.
C14_DeactivatedTokenWindow ==
    /\ [](\A c \in Clients :
            ~NoAccessP(bearer[c]) =>
                /\ bearer[c].iat <= now
                /\ bearer[c].exp = bearer[c].iat + AccessTokenMinutes)
    /\ [][C14_IssueStep]_vars
    /\ [][C14_GateStep]_vars

C14_Witness ==
    /\ last.op = "logout"
    /\ last.resp.ok
    /\ Inactive(bearer[last.client].sub)

SameBut(u, v, field) ==
    /\ u.id = v.id
    /\ field # "email" => u.email = v.email
    /\ field # "passwordHash" => u.passwordHash = v.passwordHash
    /\ field # "role" => u.role = v.role
    /\ field # "isActive" => u.isActive = v.isActive

C15_Step ==
    (Stepped("setActive") /\ last'.resp.status = 200) =>
        /\ tokens' = tokens
        /\ Cardinality(users') = Cardinality(users)
        /\ \A u \in users :
               IF u.id = last'.userId
               THEN \E v \in users' : SameBut(u, v, "isActive") /\ v.isActive = last'.flag
               ELSE u \in users'

\* C15: a setActive that succeeds sets the isActive flag of the target User
\* to the given value and changes nothing else: no RefreshToken record is
\* deleted, the target keeps its role, email and password hash, and every
\* other User stays as it was.
C15_SetActiveOnlyFlag == [][C15_Step]_vars

C15_Witness ==
    /\ last.op = "setActive"
    /\ last.resp.status = 200
    /\ ~last.flag
    /\ \E r \in tokens : r.userId = last.userId
    /\ \E u \in users : u.id = last.userId /\ u.role = "NGO" /\ ~u.isActive

UserNotFound == NotFoundException("User not found")

C16_Step ==
    (last'.op \in {"assignNgo", "setActive"} /\ vars' # vars) =>
        LET target == UserFindUniqueById(users, last'.userId) IN
        IF NoUserP(target)
        THEN /\ last'.resp = UserNotFound
             /\ users' = users
             /\ tokens' = tokens
        ELSE LET updated == IF last'.op = "assignNgo"
                            THEN [target EXCEPT !.role = "NGO"]
                            ELSE [target EXCEPT !.isActive = last'.flag]
             IN /\ last'.resp.status = 200
                /\ last'.resp.user = updated
                /\ users' = (users \ {target}) \cup {updated}

\* C16: assignNgo and setActive for an id that no User has fail with
\* NotFound and leave the User and RefreshToken tables as they were; for an
\* id that a User has they store the new role (NGO) or the new flag and
\* return the updated User.
C16_NotFoundOrUpdated == [][C16_Step]_vars

C16_Witness ==
    /\ last.op \in {"assignNgo", "setActive"}
    /\ last.resp = UserNotFound
    /\ NoUserP(UserFindUniqueById(users, last.userId))

Seeded(u) == u.id = 1 /\ u.email = AdminEmail

C17_Step ==
    \A v \in users' :
        IF \E u \in users : u.id = v.id
        THEN \A u \in users :
                 (u.id = v.id /\ u.role # v.role) =>
                     /\ last'.op = "assignNgo"
                     /\ last'.userId = v.id
                     /\ v.role = "NGO"
        ELSE /\ last'.op = "register"
             /\ v.role = "CITIZEN"

C18_Step ==
    Stepped("revokeRefreshToken") =>
        LET t == last'.token IN
        /\ last'.ret = Ret("void")
        /\ tokens' = tokens \ RecordsOf(t)
        /\ RecordsOf(t) = {} => tokens' = tokens
        /\ users' = users

\* C18: revokeRefreshToken returns without an error whatever the token: for
\* a token that has no record it leaves the RefreshToken table as it was,
\* for a token that has one it deletes that record only, and a second
\* revocation of the same token changes nothing more.
C18_RevokeIdempotent ==
    /\ [](\A t \in 0 .. MaxTokens :
            LET once == AuthService_revokeRefreshToken(tokens, t) IN
            /\ AuthService_revokeRefreshToken(once, t) = once
            /\ RecordsOf(t) = {} => once = tokens)
    /\ [][C18_Step]_vars

C18_Witness ==
    /\ last.op = "revokeRefreshToken"
    /\ ~Issued(last.token)
    /\ tokens # {}

C19_Step ==
    Stepped("login") =>
        LET c == last'.client
            user == UserFindUniqueByEmail(users, last'.email)
        IN IF last'.resp.status = 200
           THEN /\ user.isActive /\ Compare(last'.password, user.passwordHash)
                /\ \E r \in tokens' \ tokens :
                       /\ tokens' = tokens \cup {r}
                       /\ RecordsOf(r.token) = {}
                       /\ r.userId = user.id
                       /\ r.expiresAt = now + RefreshTokenDays * MinutesPerDay
                       /\ cookie'[c].value = r.token
           ELSE /\ NoUserP(user) \/ ~user.isActive \/ ~Compare(last'.password, user.passwordHash)
                /\ tokens' = tokens
                /\ cookie' = cookie

\* C19: a login that succeeds adds exactly one RefreshToken record, with a
\* token value no record had, owned by the user who logged in and expiring
\* 14 days after the login, and sets the cookie to that token value; a
\* login that fails (unknown email, wrong password or deactivated user)
\* adds no record and sets no cookie.
C19_LoginPersistsOneToken == [][C19_Step]_vars

C19_Witness ==
    /\ last.op = "login"
    /\ last.resp.status = 200
    /\ now > 0
    /\ Cardinality(tokens) = 2
    /\ \E r \in tokens : r.token = cookie[last.client].value /\ r.expiresAt = now + RefreshTokenMinutes

TokensOf(userId) == {r \in tokens : r.userId = userId}

C20_Step ==
    Stepped("revokeAllForUser") =>
        /\ last'.ret = Ret("void")
        /\ tokens' = tokens \ TokensOf(last'.userId)
        /\ users' = users

\* C20: revokeAllForUser returns without an error and deletes exactly the
\* RefreshToken records of the given user: no record of that user is left,
\* every record of another user stays, a user without records leaves the
\* table as it was, and a second call changes nothing more.
C20_RevokeAllOnlyOwner ==
    /\ [](\A u \in UserIds :
            LET once == AuthService_revokeAllForUser(tokens, u) IN
            /\ once = tokens \ TokensOf(u)
            /\ AuthService_revokeAllForUser(once, u) = once
            /\ TokensOf(u) = {} => once = tokens)
    /\ [][C20_Step]_vars

C20_Witness ==
    /\ last.op = "revokeAllForUser"
    /\ \E c \in Clients :
           /\ bearer[c].sub = last.userId
           /\ Issued(cookie[c].value)
           /\ RecordsOf(cookie[c].value) = {}
    /\ TokensOf(last.userId) = {}
    /\ tokens # {}

----------------------------------------------------------------------------
(* Sessions *)

RefreshStatus(us, tk, token, t) == AuthController_refresh(us, tk, token, t).resp.status

C21_Step ==
    (last'.op \in {"logout", "revokeRefreshToken"} /\ vars' # vars) =>
        LET t == last'.token IN
        /\ \A r \in tokens : r.token # t => r \in tokens'
        /\ tokens' \subseteq tokens
        /\ last'.resp.status \in {0, 200} => RecordsOf(t) \cap tokens' = {}
        /\ \A r \in tokens :
               r.token # t =>
                   /\ Validates(r.token) => Validates(r.token)'
                   /\ RefreshStatus(users', tokens', r.token, now')
                          = RefreshStatus(users, tokens, r.token, now)

\* C21: the refresh tokens of one user are independent sessions: every
\* stored record has its own token value and validates as long as its
\* expiry is in the future, however many its user holds; a logout or a
\* revokeRefreshToken with one token deletes the record of that token only,
\* and every other token, of the same user or of another, validates and
\* refreshes afterwards as it did before.
C21_SessionsIndependent ==
    /\ [](\A r, q \in tokens : r.token = q.token => r = q)
    /\ [](\A r \in tokens : r.expiresAt > now => Validates(r.token))
    /\ [][C21_Step]_vars

C21_Witness ==
    /\ last.op = "logout"
    /\ last.resp.ok
    /\ Issued(last.token)
    /\ RecordsOf(last.token) = {}
    /\ \E r \in tokens :
           /\ r.userId = bearer[last.client].sub
           /\ r.token < last.token
           /\ RefreshStatus(users, tokens, r.token, now) = 200

UserDeactivated == UnauthorizedException("User deactivated")

C22_SetActiveStep ==
    (Stepped("setActive") /\ last'.resp.status = 200) =>
        \A r \in tokens :
            (r.userId = last'.userId /\ Validates(r.token)) =>
                LET out == AuthController_refresh(users', tokens', r.token, now') IN
                IF last'.flag
                THEN out.resp.status = 200 /\ out.resp.accessToken.sub = r.userId
                ELSE out.resp = UserDeactivated

C22_RefreshStep ==
    (Stepped("refresh") /\ last'.resp.status # 200) => tokens' = tokens

\* C22: a stored, unexpired refresh token of a user is refused by refresh
\* (User deactivated) while the user is inactive and accepted while the
\* user is active: setActive(user, false) makes refresh refuse each of the
\* user's valid tokens, a refused refresh deletes no record, and
\* setActive(user, true) makes refresh accept each of them again.
C22_DeactivationSuspends ==
    /\ [](\A r \in tokens :
            (Validates(r.token) /\ \E u \in users : u.id = r.userId) =>
                IF OwnerUsable(r)
                THEN RefreshStatus(users, tokens, r.token, now) = 200
                ELSE AuthController_refresh(users, tokens, r.token, now).resp = UserDeactivated)
    /\ [][C22_SetActiveStep]_vars
    /\ [][C22_RefreshStep]_vars

C22_Witness ==
    /\ last.op = "setActive"
    /\ last.flag
    /\ last.resp.status = 200
    /\ \E c \in Clients :
           /\ bearer[c].sub = last.userId
           /\ bearer[c].exp <= now
           /\ RecordsOf(cookie[c].value) # {}
           /\ RefreshStatus(users, tokens, cookie[c].value, now) = 200

RoleInStore(us, id) == UserFindUniqueById(us, id).role

C23_Step ==
    \A c \in Clients :
        IF last'.op \in {"login", "refresh"} /\ last'.client = c /\ last'.resp.status = 200
        THEN /\ bearer'[c] = last'.resp.accessToken
             /\ bearer'[c].role = RoleInStore(users, bearer'[c].sub)
             /\ bearer'[c].role \in Roles
        ELSE bearer'[c] = bearer[c]

\* C23: the role in an access token is the role its User had in the store
\* when the token was issued: every login and refresh that succeeds issues
\* a token whose role is the role stored for its subject at that moment,
\* and no other operation (assign-ngo included) changes a token a client
\* holds, so a token issued before a role change keeps its old role.
C23_RoleClaimFromStore == [][C23_Step]_vars

C23_Witness ==
    /\ last.op = "refresh"
    /\ last.resp.status = 200
    /\ last.resp.accessToken.role = "NGO"
    /\ \E r \in RecordsOf(last.token) : r.expiresAt < now + RefreshTokenMinutes

\* C24: for the email of a deactivated User, validateCredentials throws
\* AccountDeactivated and login answers AccountDeactivated for every
\* password, the correct one and a wrong one alike, and login then stores
\* no RefreshToken record.
C24_DeactivatedBeforePassword ==
    /\ \A e \in Emails, p \in Passwords :
           LET user == UserFindUniqueByEmail(users, e) IN
           (~NoUserP(user) /\ ~user.isActive) =>
               /\ AuthService_validateCredentials(users, e, p) = RetThrow(AccountDeactivated)
               /\ LET out == AuthController_login(users, tokens, nextToken, e, p, now)
                  IN out.resp = AccountDeactivated /\ out.tokens = tokens
    /\ (last.op = "login" /\ Inactive(UserFindUniqueByEmail(users, last.email).id)) =>
           /\ last.ret = RetThrow(AccountDeactivated)
           /\ last.resp = AccountDeactivated

C24_Witness ==
    /\ last.op = "login"
    /\ last.resp = AccountDeactivated
    /\ LET user == UserFindUniqueByEmail(users, last.email)
       IN ~user.isActive /\ ~Compare(last.password, user.passwordHash)

=============================================================================
